---- MODULE Spec2Model ----
(***************************************************************************)
(* Model of src/ssh_password_tester.py: StealthSSHTester.                  *)
(*                                                                         *)
(* One process runs test_passwords_stealth once; the attempts table of     *)
(* ssh_progress.db (the ledger) outlives the process, every other field    *)
(* is rebuilt by __init__.  The main thread runs the resume filter, the    *)
(* submit loop, the as_completed loop and the exit of the                  *)
(* ThreadPoolExecutor block; every submitted call of test_password is a    *)
(* task run by one pool worker.  A task is identified by its position in   *)
(* the futures list.                                                       *)
(*                                                                         *)
(* Ledger reads are taken to succeed; every INSERT OR REPLACE may fail.    *)
(* The server has one answer per credential, the same in every process of  *)
(* a behaviour, and the same candidate list is given to every process; in  *)
(* SpecFlaky an attempt may also end in a transient error whatever that    *)
(* answer is.                                                              *)
(***************************************************************************)
EXTENDS Integers, Sequences, FiniteSets

\* ---------------------------------------------------------------- bounds

MaxLen == 2
MaxRuns == 2
MaxEvents == 1

\* -------------------------------------------------------------- constants

DelayThreshold == 5

None == "None"

Creds == {"aaa", "bbb", "ccc"}

\* the candidates of the throttle runs: enough distinct credentials to pass
\* the threshold of simulate_delay
ThrottleList == <<"p1", "p2", "p3", "p4", "p5", "p6", "p7", "p8">>

AllCreds == Creds \cup {ThrottleList[k] : k \in 1..Len(ThrottleList)}

PoolSizes == {1, 2, 3, 10}

Outcomes == {"Success", "AuthFailed", "ProbeError"}

\* rank of a credential name, used only to enumerate candidate lists up to
\* renaming of the credentials
Rank(c) == CASE c = "aaa" -> 1 [] c = "bbb" -> 2 [] c = "ccc" -> 3

Range(s) == {s[k] : k \in 1..Len(s)}

SeqsUpTo(n) == UNION {[1..k -> Creds] : k \in 1..n}

\* candidate lists: non-empty (the input loader drops blank lines), duplicates
\* allowed, a new credential name appears only after the names before it
FirstUse(s) ==
    \A k \in 1..Len(s) :
        Rank(s[k]) <= 1 + Cardinality({s[j] : j \in 1..(k-1)})

PasswordLists == {s \in SeqsUpTo(MaxLen) : FirstUse(s)}

\* the target's answer to one authentication attempt with credential c
Servers(pws) ==
    {f \in [AllCreds -> Outcomes] : \A c \in AllCreds \ Range(pws) : f[c] = "AuthFailed"}

VARIABLES
    passwords,             \* argument passwords
    max_workers,           \* argument max_workers
    resume,                \* argument resume
    server,                \* what ssh.connect does for each credential
    run,                   \* number of the process (1 = first)
    mpc,                   \* position of the main thread
    cands,                 \* passwords after the resume filter
    tasks,                 \* futures, in submit order, with their worker's position
    found_password,        \* self.found_password
    local_found,           \* local found_password of test_passwords_stealth
    consecutive_failures,  \* self.consecutive_failures
    connection_lock,       \* self.connection_lock: holding task, 0 when free
    ledger,                \* table attempts: set of rows
    result,                \* value returned by test_passwords_stealth
    ledger0,               \* history: the ledger when the process started
    lastWrite,             \* history: status of the latest upsert per credential
    written,               \* history: statuses ever upserted per credential
    afterFound,            \* history: attempts completed after found_password was set
    events                 \* environment: failed upserts and signals so far

vars == <<passwords, max_workers, resume, server, run, mpc, cands, tasks,
          found_password, local_found, consecutive_failures, connection_lock,
          ledger, result, ledger0, lastWrite, written, afterFound, events>>

config == <<passwords, max_workers, server>>

mainvars == <<resume, run, mpc, cands, local_found, result, ledger0>>

dbvars == <<ledger, lastWrite, written>>

env == events

\* ------------------------------------------------------------- the ledger

Row(p, s) == [password |-> p, status |-> s]

RowsOf(l, p) == {r \in l : r.password = p}

\* INSERT without OR REPLACE on a table without the PRIMARY KEY
InsertOrReplace_NoKey(l, p, s) == l \cup {Row(p, s)}

\* INSERT OR REPLACE INTO attempts: password is the PRIMARY KEY
InsertOrReplace(l, p, s) == {r \in l : r.password # p} \cup {Row(p, s)}

\* SELECT password FROM attempts
Attempted(l) == {r.password : r \in l}

\* SELECT password FROM attempts WHERE status = 'success'
SuccessRows(l) == {r \in l : r.status = "success"}

\* ------------------------------------------------------------ the throttle

\* simulate_delay with the comparison off by one
simulate_delay_AtThreshold(cf) == IF cf >= DelayThreshold THEN "long" ELSE "short"

\* simulate_delay: the range the sleep is drawn from
simulate_delay(cf) == IF cf > DelayThreshold THEN "long" ELSE "short"

\* ------------------------------------------------------------------ tasks

Done == {"ret_true", "ret_false", "ret_dup", "raised"}

NewTask(p) ==
    [password |-> p, pc |-> "queued", tmp |-> 0, late |-> FALSE, tier |-> None,
     out |-> None, writes |-> <<>>, wfail |-> FALSE, intq |-> FALSE, ord |-> 0]

Running(i) == tasks[i].pc \notin Done \cup {"queued"}

\* every submitted call has finished: what shutdown(wait=True) waits for
AllDone == \A i \in 1..Len(tasks) : tasks[i].pc \in Done

\* the fields of a task:
\*   password  the credential of the call
\*   pc        position of the worker inside test_password, or the future's state
\*   tmp       the value of consecutive_failures read by "+= 1"
\*   tier      history: the delay range simulate_delay chose
\*   out       history: what the authentication attempt did
\*   writes    history: the statuses this call upserted, in order
\*   wfail     history: an upsert of this call failed
\*   late      history: the worker picked the task up with found_password set
\*   intq      history: the task was still queued when handle_interrupt ran
\*   ord       history: the rank of the call's attempt among the attempts of the run

Set(i, f, v) == [tasks EXCEPT ![i][f] = v]

\* ------------------------------------------------------------------- Init

\* __init__ (a fresh object per process) and the arguments of the run; the
\* database file does not exist before the first process, so its resume
\* branch would filter nothing
InitWith(lists, pools, ev) ==
    /\ passwords \in lists
    /\ max_workers \in pools
    /\ resume = FALSE
    /\ server \in Servers(passwords)
    /\ run = 1
    /\ mpc = "start"
    /\ cands = <<>>
    /\ tasks = <<>>
    /\ found_password = None
    /\ local_found = None
    /\ consecutive_failures = 0
    /\ connection_lock = 0
    /\ ledger = {}
    /\ result = None
    /\ ledger0 = {}
    /\ lastWrite = [c \in AllCreds |-> None]
    /\ written = [c \in AllCreds |-> {}]
    /\ afterFound = 0
    /\ events = ev

Init == InitWith(PasswordLists, PoolSizes, 0)

\* ------------------------------------------------------------ main thread

\* a resume filter that drops only the rejected passwords
Filtered_OnlyFailed(pws, l) ==
    SelectSeq(pws, LAMBDA p : \A r \in RowsOf(l, p) : r.status # "failed")

\* the passwords left by the resume filter
Filtered(pws, l) == SelectSeq(pws, LAMBDA p : p \notin Attempted(l))

\* a resume branch that never looks for a success row
ResumeHit_Never(l) == {}

\* the resume branch: "success = conn.execute(... WHERE status = 'success').fetchone()"
ResumeHit(l) == SuccessRows(l)

\* a submit loop that stops one candidate early
Candidates_DropLast(r, pws, l) ==
    IF Len(pws) > 1 THEN SubSeq(pws, 1, Len(pws) - 1) ELSE pws

\* the list the submit loop iterates: "passwords" after the resume branch
Candidates(r, pws, l) == IF r THEN Filtered(pws, l) ELSE pws

\* test_passwords_stealth up to the submit loop: the resume branch
Start ==
    /\ mpc = "start"
    /\ IF resume /\ ResumeHit(ledger) # {}
       THEN /\ \E r \in ResumeHit(ledger) : result' = r.password
            /\ mpc' = "returned"
            /\ cands' = cands
       ELSE IF resume /\ Filtered(passwords, ledger) = <<>>
       THEN /\ result' = None
            /\ mpc' = "returned"
            /\ cands' = cands
       ELSE /\ cands' = Candidates(resume, passwords, ledger)
            /\ mpc' = "submit"
            /\ result' = result
    /\ UNCHANGED <<config, resume, run, local_found, ledger0, tasks,
                   found_password, consecutive_failures, connection_lock, dbvars,
                   afterFound, env>>

\* one iteration of "for password in passwords": the found check, then submit
Submit ==
    /\ mpc = "submit"
    /\ Len(tasks) < Len(cands)
    /\ IF found_password # None
       THEN /\ local_found' = found_password
            /\ mpc' = "drain"
            /\ tasks' = tasks
       ELSE /\ tasks' = Append(tasks, NewTask(cands[Len(tasks) + 1]))
            /\ mpc' = IF Len(tasks) + 1 = Len(cands) THEN "drain" ELSE "submit"
            /\ local_found' = local_found
    /\ UNCHANGED <<config, resume, run, cands, result, ledger0,
                   found_password, consecutive_failures, connection_lock, dbvars,
                   afterFound, env>>

\* "for future in as_completed(futures)": a finished future is handed out.
\* With found_password set the loop breaks; otherwise future.result() raises
\* what the call raised, a success result breaks the loop, and any other
\* result changes nothing, so the loop ends when every future was handed out
\* this way.
AsCompleted ==
    /\ mpc = "drain"
    /\ \/ /\ found_password # None
          /\ \E i \in 1..Len(tasks) : tasks[i].pc \in Done
          /\ local_found' = found_password
          /\ mpc' = "shutdown"
          /\ UNCHANGED found_password
       \/ /\ found_password = None
          /\ \E i \in 1..Len(tasks) : tasks[i].pc = "raised"
          /\ mpc' = "raising"
          /\ UNCHANGED <<found_password, local_found>>
       \/ /\ found_password = None
          /\ \E i \in 1..Len(tasks) :
                /\ tasks[i].pc = "ret_true"
                /\ local_found' = tasks[i].password
                /\ found_password' = tasks[i].password
          /\ mpc' = "shutdown"
       \/ /\ found_password = None
          /\ \A i \in 1..Len(tasks) : tasks[i].pc \in {"ret_false", "ret_dup"}
          /\ mpc' = "shutdown"
          /\ UNCHANGED <<found_password, local_found>>
    /\ UNCHANGED <<config, resume, run, cands, result, ledger0, tasks,
                   consecutive_failures, connection_lock, dbvars, afterFound, env>>

\* the end of the "with ThreadPoolExecutor" block waits for every submitted
\* call; then the function returns, or the exception of future.result() or the
\* SystemExit of handle_interrupt leaves it
ExitExecutor ==
    /\ mpc \in {"shutdown", "raising", "exiting"}
    /\ AllDone
    /\ mpc' = CASE mpc = "shutdown" -> "returned"
                [] mpc = "raising" -> "raised"
                [] mpc = "exiting" -> "exited"
    /\ result' = IF mpc = "shutdown"
                 THEN (IF local_found # None THEN local_found ELSE found_password)
                 ELSE result
    /\ UNCHANGED <<config, resume, run, cands, local_found, ledger0, tasks,
                   found_password, consecutive_failures, connection_lock, dbvars,
                   afterFound, env>>

\* SIGINT or SIGTERM: handle_interrupt raises SystemExit in the main thread
handle_interrupt ==
    /\ mpc \in {"start", "submit", "drain", "shutdown"}
    /\ events < MaxEvents
    /\ events' = events + 1
    /\ mpc' = "exiting"
    /\ tasks' = [i \in 1..Len(tasks) |->
                    [tasks[i] EXCEPT !.intq = (tasks[i].pc = "queued")]]
    /\ UNCHANGED <<config, resume, run, cands, local_found, result, ledger0,
                   found_password, consecutive_failures, connection_lock, dbvars,
                   afterFound>>

\* the next process: __init__ again, the database file is kept
NextRun ==
    /\ mpc \in {"returned", "raised", "exited"}
    /\ run < MaxRuns
    /\ run' = run + 1
    /\ resume' \in BOOLEAN
    /\ mpc' = "start"
    /\ cands' = <<>>
    /\ tasks' = <<>>
    /\ found_password' = None
    /\ local_found' = None
    /\ consecutive_failures' = 0
    /\ connection_lock' = 0
    /\ result' = None
    /\ ledger0' = ledger
    /\ afterFound' = 0
    /\ UNCHANGED <<config, dbvars, env>>

\* ---------------------------------------------------------------- workers

\* a first statement that never returns early
FoundSeen_Never(f) == FALSE

\* "if self.found_password"
FoundSeen(f) == f # None

\* workers take the queued calls oldest first, one call per worker; a worker
\* that has taken a call may reach the first statement of test_password later
\* than a worker that took a younger one, so call i can run this statement as
\* soon as the pool has a worker for it and for each older call still queued:
\* "if self.found_password: return"
found_check(i) ==
    /\ tasks[i].pc = "queued"
    /\ Cardinality({j \in 1..Len(tasks) : Running(j)})
         + Cardinality({j \in 1..i : tasks[j].pc = "queued"}) <= max_workers
    /\ tasks' = [tasks EXCEPT
                    ![i].pc = IF FoundSeen(found_password) THEN "ret_false" ELSE "lock",
                    ![i].late = (found_password # None)]
    /\ UNCHANGED <<config, mainvars, found_password, consecutive_failures,
                   connection_lock, dbvars, afterFound, env>>

\* a dedup check that looks only for a 'success' row
DedupRows_OnlySuccess(l, p) == {r \in RowsOf(l, p) : r.status = "success"}

\* "SELECT status FROM attempts WHERE password = ?"
DedupRows(l, p) == RowsOf(l, p)

\* test_password: take connection_lock, SELECT status FROM attempts
dedup_check(i) ==
    /\ tasks[i].pc = "lock"
    /\ connection_lock = 0
    /\ LET rows == DedupRows(ledger, tasks[i].password) IN
       IF rows = {}
       THEN /\ connection_lock' = i
            /\ tasks' = Set(i, "pc", "probe")
            /\ found_password' = found_password
       ELSE \E r \in rows :
            IF r.status = "success"
            THEN /\ found_password' = tasks[i].password
                 /\ tasks' = Set(i, "pc", "ret_true")
                 /\ connection_lock' = connection_lock
            ELSE /\ tasks' = Set(i, "pc", "ret_dup")
                 /\ UNCHANGED <<found_password, connection_lock>>
    /\ UNCHANGED <<config, mainvars, consecutive_failures, dbvars, afterFound, env>>

\* the number of authentication attempts made so far in the run
Attempts == Cardinality({j \in 1..Len(tasks) : tasks[j].out # None})

\* self.found_password assigned before ssh.connect has answered
FoundAfterConnect_Early(out, p, f) == p

\* "self.found_password = password" is reached only when ssh.connect returned
FoundAfterConnect(out, p, f) == IF out = "Success" THEN p ELSE f

\* a lock that an exception of ssh.connect would not release
LockAfterConnect_Kept(out, l) == l

\* an exception of ssh.connect leaves "with self.connection_lock"
LockAfterConnect(out, l) == IF out = "Success" THEN l ELSE 0

\* test_password: simulate_delay, ssh.connect and what follows it at once:
\* self.found_password = password, or the exception leaving the lock
Connect(i, out) ==
    /\ tasks[i].pc = "probe"
    /\ tasks' = [tasks EXCEPT ![i].tier = simulate_delay(consecutive_failures),
                              ![i].out = out,
                              ![i].ord = Attempts + 1,
                              ![i].pc = CASE out = "Success" -> "reset"
                                          [] out = "AuthFailed" -> "auth"
                                          [] out = "ProbeError" -> "exc_load"]
    /\ found_password' = FoundAfterConnect(out, tasks[i].password, found_password)
    /\ connection_lock' = LockAfterConnect(out, connection_lock)
    /\ afterFound' = afterFound + (IF found_password # None THEN 1 ELSE 0)
    /\ UNCHANGED <<config, mainvars, consecutive_failures, dbvars, env>>

\* the attempt with the answer the server has for the credential
probe(i) == Connect(i, server[tasks[i].password])

\* the attempt that ends in a timeout or a network error although the server
\* has an answer for the credential
probe_transient(i) ==
    /\ server[tasks[i].password] # "ProbeError"
    /\ Connect(i, "ProbeError")

\* test_password: self.consecutive_failures = 0
reset_failures(i) ==
    /\ tasks[i].pc = "reset"
    /\ consecutive_failures' = 0
    /\ tasks' = Set(i, "pc", "write")
    /\ UNCHANGED <<config, mainvars, found_password, connection_lock, dbvars,
                   afterFound, env>>

\* one INSERT OR REPLACE of task i, after which the call is at pc
Upsert(i, s, pc) ==
    /\ ledger' = InsertOrReplace(ledger, tasks[i].password, s)
    /\ lastWrite' = [lastWrite EXCEPT ![tasks[i].password] = s]
    /\ written' = [written EXCEPT ![tasks[i].password] = @ \cup {s}]
    /\ tasks' = [tasks EXCEPT ![i].writes = Append(@, s), ![i].pc = pc, ![i].tmp = 0]
    /\ events' = events

\* one INSERT OR REPLACE of task i that raises, after which the call is at pc
UpsertFails(i, pc) ==
    /\ events < MaxEvents
    /\ events' = events + 1
    /\ tasks' = [tasks EXCEPT ![i].wfail = TRUE, ![i].pc = pc, ![i].tmp = 0]
    /\ UNCHANGED dbvars

\* where a call is after its 'success' row if the return were missing
AfterSuccessRow_FallsThrough == "exc_load"

\* "return (password, True, None)" after the 'success' row
AfterSuccessRow == "ret_true"

\* test_password: the 'success' row, written under the lock, and the return;
\* an exception of the write is caught by "except Exception"
write_success(i) ==
    /\ tasks[i].pc = "write"
    /\ connection_lock' = 0
    /\ \/ Upsert(i, "success", AfterSuccessRow)
       \/ UpsertFails(i, "exc_load")
    /\ UNCHANGED <<config, mainvars, found_password, consecutive_failures,
                   afterFound>>

\* the status of the other handler
AuthStatus_Error == "error"

\* the status written by "except paramiko.AuthenticationException"
AuthStatus == "failed"

\* test_password: except paramiko.AuthenticationException
auth_handler(i) ==
    /\ tasks[i].pc = "auth"
    /\ \/ Upsert(i, AuthStatus, "ret_false")
       \/ UpsertFails(i, "raised")
    /\ UNCHANGED <<config, mainvars, found_password, consecutive_failures,
                   connection_lock, afterFound>>

\* test_password: except Exception, the read of "self.consecutive_failures += 1"
exc_load(i) ==
    /\ tasks[i].pc = "exc_load"
    /\ tasks' = [tasks EXCEPT ![i].tmp = consecutive_failures, ![i].pc = "exc_store"]
    /\ UNCHANGED <<config, mainvars, found_password, consecutive_failures,
                   connection_lock, dbvars, afterFound, env>>

\* test_password: except Exception, the write of "self.consecutive_failures += 1"
exc_store(i) ==
    /\ tasks[i].pc = "exc_store"
    /\ consecutive_failures' = tasks[i].tmp + 1
    /\ tasks' = Set(i, "pc", "exc_write")
    /\ UNCHANGED <<config, mainvars, found_password, connection_lock, dbvars,
                   afterFound, env>>

\* test_password: except Exception, the 'error' row and the return
exc_write(i) ==
    /\ tasks[i].pc = "exc_write"
    /\ \/ Upsert(i, "error", "ret_false")
       \/ UpsertFails(i, "raised")
    /\ UNCHANGED <<config, mainvars, found_password, consecutive_failures,
                   connection_lock, afterFound>>

test_password(i) ==
    \/ found_check(i)
    \/ dedup_check(i)
    \/ probe(i)
    \/ reset_failures(i)
    \/ write_success(i)
    \/ auth_handler(i)
    \/ exc_load(i)
    \/ exc_store(i)
    \/ exc_write(i)

Worker == \E i \in 1..Len(tasks) : test_password(i)

test_passwords_stealth == Start \/ Submit \/ AsCompleted \/ ExitExecutor

Next == test_passwords_stealth \/ Worker \/ handle_interrupt \/ NextRun

Spec == Init /\ [][Next]_vars

\* the end-to-end scenario: candidates aaa, bbb, ccc, two workers, bbb
\* authenticates and the other two are rejected
InitE2E ==
    /\ InitWith({<<"aaa", "bbb", "ccc">>}, {2}, 0)
    /\ server = [c \in AllCreds |-> IF c = "bbb" THEN "Success" ELSE "AuthFailed"]

SpecE2E == InitE2E /\ [][Next]_vars

\* the throttle runs: one process over ThrottleList with one or two workers,
\* no signal and no failing write; the first DelayThreshold candidates end in
\* ProbeError, the others in any outcome
InitThrottle ==
    /\ InitWith({ThrottleList}, {1, 2}, MaxEvents)
    /\ \A k \in 1..DelayThreshold : server[ThrottleList[k]] = "ProbeError"

NextThrottle == test_passwords_stealth \/ Worker

SpecThrottle == InitThrottle /\ [][NextThrottle]_vars

\* the runs in which any attempt may also end in a transient error
Flaky == \E i \in 1..Len(tasks) : probe_transient(i)

NextFlaky == Next \/ Flaky

\* one or two workers: with more workers than calls every call has its own
InitFlaky == InitWith(PasswordLists, {1, 2}, 0)

SpecFlaky == InitFlaky /\ [][NextFlaky]_vars

\* the runs without a signal, under fair scheduling: a worker that can take a
\* step takes one, and so does the main thread; every ssh.connect answers
\* (probe is one step); a next process is started or not
NextLive == test_passwords_stealth \/ Worker \/ NextRun

SpecLive ==
    /\ Init
    /\ [][NextLive]_vars
    /\ WF_vars(Worker)
    /\ WF_vars(test_passwords_stealth)

\* ------------------------------------------------------------------ claims

\* the process is over: test_passwords_stealth returned or raised
Ended == mpc \in {"returned", "raised"}

\* no INSERT OR REPLACE of this process has failed
NoWriteFailed == \A i \in 1..Len(tasks) : ~tasks[i].wfail

\* the candidates that authenticate
Winners == {c \in Range(passwords) : server[c] = "Success"}

\* exactly one candidate authenticates, every other one is rejected, and the
\* ledger of the process holds no stale (non-success) row for the one that
\* authenticates
SingleSuccess(c) ==
    /\ Winners = {c}
    /\ \A d \in Range(passwords) \ {c} : server[d] = "AuthFailed"
    /\ \A r \in RowsOf(ledger0, c) : r.status = "success"

\* C1: a run over a candidate list in which exactly one credential yields
\* Success and every other one AuthFailed returns that credential, for every
\* pool size, every position of the credential and every interleaving (runs in
\* which no ledger write fails; an interrupted run returns nothing).
C1_SingleSuccessReturned ==
    \A c \in Creds :
        (Ended /\ SingleSuccess(c) /\ NoWriteFailed)
            => (mpc = "returned" /\ result = c)

\* C1 witness: the credential is the last of two candidates, the pool has 10
\* workers, both candidates were tried and the run returned it
C1_Witness ==
    /\ mpc = "returned"
    /\ run = 1
    /\ max_workers = 10
    /\ Len(passwords) = MaxLen
    /\ SingleSuccess(passwords[Len(passwords)])
    /\ \A i \in 1..Len(tasks) : tasks[i].out # None
    /\ Len(tasks) = Len(passwords)
    /\ NoWriteFailed
    /\ result = passwords[Len(passwords)]

\* the rows of a ledger in which every candidate of the end-to-end scenario
\* has its own outcome
E2ERows == {Row("aaa", "failed"), Row("bbb", "success"), Row("ccc", "failed")}

\* the status test_password records for an outcome
StatusOf(out) ==
    CASE out = "Success" -> "success"
      [] out = "AuthFailed" -> "failed"
      [] out = "ProbeError" -> "error"

\* C2 as stated: the first run of the end-to-end scenario returns bbb and
\* leaves exactly 3 records, one per candidate, one Success and two AuthFailed.
C2_AllThreeRecorded ==
    (run = 1 /\ mpc = "returned" /\ NoWriteFailed)
        => (result = "bbb" /\ ledger = E2ERows)

\* C2 amended: the first run of the end-to-end scenario returns bbb; the ledger
\* then holds the Success record of bbb and, for aaa and for ccc, an AuthFailed
\* record exactly when that candidate was probed: a candidate that was not
\* submitted, or whose call found found_password already set, has no record.
C2_Amended ==
    (run = 1 /\ mpc = "returned" /\ NoWriteFailed)
        => /\ result = "bbb"
           /\ Row("bbb", "success") \in ledger
           /\ ledger \subseteq E2ERows
           /\ \A c \in Range(passwords) :
                (RowsOf(ledger, c) # {})
                    <=> (\E i \in 1..Len(tasks) :
                            tasks[i].password = c /\ tasks[i].out # None)

\* C2 witness: the run returned bbb and ccc was never probed: 2 records
C2_Witness ==
    /\ passwords = <<"aaa", "bbb", "ccc">>
    /\ max_workers = 2
    /\ run = 1
    /\ mpc = "returned"
    /\ NoWriteFailed
    /\ result = "bbb"
    /\ ledger = {Row("aaa", "failed"), Row("bbb", "success")}

\* C3: a run with resume = true that starts with a Success record in the
\* ledger submits no call (so no delay and no authentication attempt), writes
\* nothing to the ledger, and returns a credential recorded as Success.
C3_ResumeShortCircuit ==
    (resume /\ SuccessRows(ledger0) # {})
        => /\ tasks = <<>>
           /\ ledger = ledger0
           /\ found_password = None
           /\ consecutive_failures = 0
           /\ mpc \in {"start", "returned", "exiting", "exited"}
           /\ mpc = "returned" => Row(result, "success") \in ledger0

\* C3 witness: such a run has returned although a candidate has no record
C3_Witness ==
    /\ resume
    /\ mpc = "returned"
    /\ Row(result, "success") \in ledger0
    /\ \E p \in Range(passwords) : RowsOf(ledger0, p) = {}

\* the candidates a resumed run is left with: the input list, in order,
\* without the credentials that have a record when the run starts
Untried == SelectSeq(passwords, LAMBDA p : RowsOf(ledger0, p) = {})

\* the credentials probed by this process
Probed == {tasks[i].password : i \in {j \in 1..Len(tasks) : tasks[j].out # None}}

\* C4: in a run with resume = true and no Success record at its start, the
\* calls submitted are, in order, the candidates without a record at run
\* start, so nothing else is probed; and a run that returns without a find
\* has probed every one of them.
C4_ResumeFilter ==
    (resume /\ SuccessRows(ledger0) = {})
        => /\ Len(tasks) <= Len(Untried)
           /\ \A i \in 1..Len(tasks) : tasks[i].password = Untried[i]
           /\ Probed \subseteq Range(Untried)
           /\ (mpc = "returned" /\ result = None /\ NoWriteFailed)
                => Probed = Range(Untried)

\* C4 witness: the first process recorded the first candidate only; the
\* resumed run over the same list probed the second candidate and nothing else
C4_Witness ==
    /\ run = 2
    /\ resume
    /\ Len(passwords) = MaxLen
    /\ Attempted(ledger0) = {passwords[k] : k \in 1..(MaxLen - 1)}
    /\ SuccessRows(ledger0) = {}
    /\ mpc = "returned"
    /\ Len(tasks) = 1
    /\ Probed = {passwords[MaxLen]}
    /\ passwords[MaxLen] \notin Attempted(ledger0)

\* C5: the ledger holds at most one record per credential, and it is the one
\* of the latest upsert of that credential.
C5_OneRecordLatestWins ==
    \A c \in AllCreds :
        /\ Cardinality(RowsOf(ledger, c)) <= 1
        /\ RowsOf(ledger, c) =
             IF lastWrite[c] = None THEN {} ELSE {Row(c, lastWrite[c])}

\* C5 witness: a credential was upserted as success and then as error by two
\* calls, and its one record says error
C5_Witness ==
    \E c \in Creds :
        /\ written[c] = {"success", "error"}
        /\ lastWrite[c] = "error"
        /\ RowsOf(ledger, c) = {Row(c, "error")}
        /\ \E i, j \in 1..Len(tasks) :
              /\ i # j
              /\ tasks[i].password = c /\ tasks[i].writes = <<"success">>
              /\ tasks[j].password = c /\ tasks[j].writes = <<"error">>

\* a step of call i from position a to position b
Step(i, a, b) ==
    /\ i <= Len(tasks')
    /\ tasks[i].pc = a
    /\ tasks'[i].pc = b

\* the calls whose attempt ended in ProbeError
Errors == {i \in 1..Len(tasks) : tasks[i].out = "ProbeError"}

C7_OneUpsertPerProbe ==
    \A i \in 1..Len(tasks) :
        /\ Len(tasks[i].writes) <= 1
        /\ tasks[i].out = None => tasks[i].writes = <<>>
        /\ (tasks[i].out # None /\ tasks[i].pc \in Done /\ ~tasks[i].wfail)
              => tasks[i].writes = <<StatusOf(tasks[i].out)>>
        /\ (tasks[i].writes # <<>> /\ ~tasks[i].wfail)
              => /\ tasks[i].writes = <<StatusOf(tasks[i].out)>>
                 /\ lastWrite[tasks[i].password] \in written[tasks[i].password]
        /\ tasks[i].pc \in {"ret_dup", "queued", "lock", "probe"}
              => (tasks[i].out = None /\ tasks[i].writes = <<>>)
        /\ tasks[i].late => (tasks[i].out = None /\ tasks[i].pc = "ret_false")

\* C7 witness: in one run a call ended in each of AuthFailed and ProbeError or
\* Success with its one upsert, and another call was skipped by the dedup check
C7_Witness ==
    \E i, j \in 1..Len(tasks) :
        /\ tasks[i].pc = "ret_false"
        /\ tasks[i].out \in {"AuthFailed", "ProbeError"}
        /\ tasks[i].writes = <<StatusOf(tasks[i].out)>>
        /\ tasks[j].pc = "ret_dup"
        /\ tasks[j].writes = <<>>

\* C8 as stated: a failed ledger write never makes test_passwords_stealth
\* raise, and a Success whose write failed is still returned.
C8_WriteFailureContained ==
    (\E i \in 1..Len(tasks) : tasks[i].wfail)
        => /\ mpc \notin {"raising", "raised"}
           /\ \A i \in 1..Len(tasks) :
                (mpc = "returned" /\ tasks[i].wfail /\ tasks[i].out = "Success")
                    => result \in Winners

\* the part of C8 that holds: when the only calls whose write failed are
\* Successes, the run returns a credential that yields Success
C8_SuccessStillReturned ==
    (/\ mpc \in {"returned", "raised"}
     /\ \E i \in 1..Len(tasks) : tasks[i].wfail
     /\ \A i \in 1..Len(tasks) : tasks[i].wfail => tasks[i].out = "Success")
        => (mpc = "returned" /\ result \in Winners)

\* C9 as stated: a call that was still queued when handle_interrupt ran makes
\* no authentication attempt and writes nothing to the ledger.
C9_NoProbeAfterInterrupt ==
    \A i \in 1..Len(tasks) :
        tasks[i].intq => (tasks[i].out = None /\ tasks[i].writes = <<>>)

\* C10: at most max_workers - 1 authentication attempts are made after
\* found_password was set, and a call that a worker starts with found_password
\* set returns without an attempt.
C10_BoundedOverrun ==
    /\ afterFound <= max_workers - 1
    /\ \A i \in 1..Len(tasks) :
          tasks[i].late => (tasks[i].out = None /\ tasks[i].writes = <<>>)

\* C10 witness: with two workers one attempt was made after the find, and a
\* later call returned without one
C10_Witness ==
    /\ max_workers = 2
    /\ afterFound = 1
    /\ found_password # None
    /\ \E i \in 1..Len(tasks) : tasks[i].out = "Success"

\* the calls of the run whose attempt authenticated
Successes == {i \in 1..Len(tasks) : tasks[i].out = "Success"}

\* the first call of the run whose attempt authenticated
IsFirstSuccess(i) ==
    /\ i \in Successes
    /\ \A j \in Successes : tasks[i].ord <= tasks[j].ord

\* C11 as stated: a run that returns after some attempt authenticated returns
\* the credential of the first attempt that did, whatever a later attempt
\* does (runs from a ledger without a success row and without a failed write).
C11_FirstSuccessWins ==
    (mpc = "returned" /\ Successes # {} /\ NoWriteFailed /\ SuccessRows(ledger0) = {})
        => \E i \in Successes : IsFirstSuccess(i) /\ result = tasks[i].password

\* the part of C11 that holds: an attempt that was under way or waiting for
\* the lock when the first one authenticated is completed and recorded
C11_InFlightRecorded ==
    \A i \in 1..Len(tasks) :
        (mpc = "returned" /\ tasks[i].out # None /\ ~tasks[i].wfail)
            => Row(tasks[i].password, StatusOf(tasks[i].out)) \in ledger
               \/ lastWrite[tasks[i].password] # StatusOf(tasks[i].out)

\* call i makes its authentication attempt in this step
AttemptStep(i) == i <= Len(tasks') /\ tasks[i].out = None /\ tasks'[i].out # None

\* the part of C12 that holds: a dedup check that finds a record with a status
\* other than 'success' ends the call as a duplicate-skip, with no attempt and
\* no write, and leaves the ledger, found_password, consecutive_failures and
\* the lock as they were; a call ends as a duplicate-skip in no other way.
C12_DedupSkipFrame ==
    [][\A i \in 1..Len(tasks) :
          /\ (tasks[i].pc = "lock" /\ i <= Len(tasks') /\ tasks'[i].pc # "lock"
                /\ \E r \in RowsOf(ledger, tasks[i].password) : r.status # "success")
                => Step(i, "lock", "ret_dup")
          /\ (i <= Len(tasks') /\ tasks[i].pc # "ret_dup" /\ tasks'[i].pc = "ret_dup")
                => /\ tasks[i].pc = "lock"
                   /\ \E r \in RowsOf(ledger, tasks[i].password) : r.status # "success"
                   /\ tasks'[i] = [tasks[i] EXCEPT !.pc = "ret_dup"]
                   /\ tasks[i].out = None /\ tasks[i].writes = <<>>
                   /\ ledger' = ledger
                   /\ found_password' = found_password
                   /\ consecutive_failures' = consecutive_failures
                   /\ connection_lock' = connection_lock
      ]_vars

\* C12 as stated, in its consequence: no authentication attempt is made for
\* a credential while the ledger holds a ProbeError record of it, in the run
\* that wrote the record or in a later one.
C12_RecordedNeverProbedAgain ==
    [][\A i \in 1..Len(tasks) :
          AttemptStep(i) => Row(tasks[i].password, "error") \notin ledger
      ]_vars

\* C13 as stated, for the call of the second run: in a later run without
\* resume, a call for a credential that an earlier run recorded as ProbeError,
\* and that gets past the found check, attempts the credential again (and so
\* overwrites the record).
C13_RetriedInLaterRun ==
    \A i \in 1..Len(tasks) :
        (/\ run > 1
         /\ ~resume
         /\ Row(tasks[i].password, "error") \in ledger0
         /\ tasks[i].pc \in Done
         /\ ~tasks[i].late)
            => tasks[i].out # None

\* C13 amended: a run never attempts a credential that had a record when the
\* run started, and every record present at the start of a run is still in
\* the ledger, unchanged, at any later moment of the run.
C13_Amended ==
    /\ \A i \in 1..Len(tasks) :
          tasks[i].out # None => RowsOf(ledger0, tasks[i].password) = {}
    /\ ledger0 \subseteq ledger

\* C13 witness: a second run without resume has ended; the credential it was
\* given authenticates, the first run left a ProbeError record of it, and the
\* call of the second run ended as a duplicate-skip with the record unchanged
C13_Witness ==
    /\ run = 2
    /\ ~resume
    /\ mpc = "returned"
    /\ \E i \in 1..Len(tasks) :
          /\ server[tasks[i].password] = "Success"
          /\ Row(tasks[i].password, "error") \in ledger0
          /\ tasks[i].pc = "ret_dup"
          /\ tasks[i].out = None
          /\ Row(tasks[i].password, "error") \in ledger

\* the calls inside "with self.connection_lock" past the dedup check: in
\* simulate_delay, in ssh.connect or writing the 'success' row
InSection == {i \in 1..Len(tasks) : tasks[i].pc \in {"probe", "reset", "write"}}

\* C14 as stated: while one call is in its delay or its authentication
\* attempt, another call that a worker has started can go on into its own
\* dedup check, delay and attempt.
C14_DelayBlocksOnlyItsWorker ==
    \A i, j \in 1..Len(tasks) :
        (tasks[i].pc = "probe" /\ tasks[j].pc = "lock") => ENABLED dedup_check(j)

\* what holds instead of C14: at most one call at a time is in the delay, the
\* attempt or the 'success' write, and it is the one holding connection_lock
C14_OneInSection ==
    /\ Cardinality(InSection) <= 1
    /\ \A i \in InSection : connection_lock = i
    /\ connection_lock # 0 => connection_lock \in InSection

\* the calls submitted to the pool and not yet completed, running or queued
Pending == {i \in 1..Len(tasks) : tasks[i].pc \notin Done}

\* C15 as stated: the number of calls submitted to the pool and not yet
\* completed is at most max_workers.
C15_SubmissionBounded == Cardinality(Pending) <= max_workers

\* what holds instead of C15: the calls a worker is running are at most
\* max_workers, and the submitted calls are at most the candidates of the run
C15_RunningBounded ==
    /\ Cardinality({i \in 1..Len(tasks) : Running(i)}) <= max_workers
    /\ Len(tasks) <= Len(cands)

\* C16 as stated: when a run in which no attempt authenticated returns,
\* consecutive_failures is the number of its attempts that ended in ProbeError.
C16_NoLostUpdate ==
    (mpc = "returned" /\ Successes = {} /\ tasks # <<>>)
        => consecutive_failures = Cardinality(Errors)

\* what holds instead of C16: with one worker the count is exact; with more
\* the counter is at most the number of ProbeErrors, and at least 1 if any
C16_SingleWorkerExact ==
    (mpc = "returned" /\ Successes = {} /\ tasks # <<>>)
        => /\ consecutive_failures <= Cardinality(Errors)
           /\ Errors # {} => consecutive_failures >= 1
           /\ max_workers = 1 => consecutive_failures = Cardinality(Errors)

\* the run ended Exhausted: it returned an absent value
Exhausted == mpc = "returned" /\ result = None

\* the run ended Found: it returned a credential
Found == mpc = "returned" /\ result # None

\* C17: without a signal and under fair scheduling every run that starts ends:
\* it returns, Found or Exhausted, or, when an upsert of one of its calls
\* raised, it may raise instead; when it has ended no call is left unfinished;
\* it returns an absent value only if none of its attempts authenticated, none
\* of its calls found a success record and found_password is not set, and it
\* returns a credential only if one of these happened or the resume branch
\* found a success record.
C17_Terminates ==
    /\ (mpc = "start") ~> (Found \/ Exhausted \/ (mpc = "raised" /\ ~NoWriteFailed))
    /\ [](mpc \in {"returned", "raised"} => AllDone)
    /\ [](Exhausted => /\ Successes = {}
                       /\ \A i \in 1..Len(tasks) : tasks[i].pc # "ret_true"
                       /\ found_password = None)
    /\ [](Found => \/ Successes # {}
                   \/ \E i \in 1..Len(tasks) : tasks[i].pc = "ret_true"
                   \/ (resume /\ tasks = <<>> /\ Row(result, "success") \in ledger0))

\* C17 witness: a run over MaxLen candidates ended Exhausted after an attempt
\* for each of them
C17_Witness ==
    /\ Exhausted
    /\ Len(tasks) = MaxLen
    /\ \A i \in 1..Len(tasks) : tasks[i].out \in {"AuthFailed", "ProbeError"}
    /\ max_workers = 2

\* C18 as stated: when no upsert of the run raised and test_passwords_stealth
\* returns a credential, the ledger holds at that moment the record of that
\* credential with status 'success'.
C18_ReturnedIsRecorded ==
    (Found /\ NoWriteFailed) => Row(result, "success") \in ledger

\* C19: when no upsert of the run raised and the run returns an absent value,
\* every credential of the candidate list it was given has a record in the
\* ledger at that moment, and none of these records has status 'success'.
C19_ExhaustedAllRecorded ==
    (Exhausted /\ NoWriteFailed)
        => \A c \in Range(passwords) :
              /\ Cardinality(RowsOf(ledger, c)) = 1
              /\ \A r \in RowsOf(ledger, c) : r.status \in {"failed", "error"}

\* C19 witness: a second run with resume over MaxLen candidates, of which the
\* first had a record, made an attempt for the others, one of them ending in
\* a transient error, and ended Exhausted
C19_Witness ==
    /\ run = 2
    /\ resume
    /\ Exhausted
    /\ NoWriteFailed
    /\ Len(passwords) = MaxLen
    /\ RowsOf(ledger0, passwords[1]) # {}
    /\ tasks # <<>>
    /\ \A i \in 1..Len(tasks) : tasks[i].out # None
    /\ \E i \in 1..Len(tasks) :
          tasks[i].out = "ProbeError" /\ server[tasks[i].password] # "ProbeError"

====
